---- MODULE Spec2Model ----
(***************************************************************************)
(* Attendance tooling: the report parser (attendance_parser_final.py) and  *)
(* the monthly aggregation / ranking (attendance_analysis_python.py).      *)
(*                                                                         *)
(* Text is modelled as sequences of one-character strings.  The marker     *)
(* token of a record line is the two code points U+1F449 U+1F3FE.          *)
(* Decimal values rounded to 2 places are kept as integers in hundredths   *)
(* (50.0 is 5000).  A missing cell (NaN) of the dataset is <<>>, a present  *)
(* one <<v>>.                                                              *)
(***************************************************************************)
EXTENDS Integers, Sequences, FiniteSets, TLC

VARIABLES
    pc,                    \* position in the function being run
    data,                  \* parse_attendance_data: the text, as data.split('\n')
    lines,                 \* the stripped, non-empty lines
    lineno,                \* for each element of lines, its index in data
    i,                     \* loop position in lines
    current_constituency,  \* <<>> is None, <<name>> is a str
    parsed_data,           \* the records appended so far
    src,                   \* for each record, the index in data of its line
    input_file,            \* calculate_monthly_attendance_averages: <<>> when the
                           \* file is missing, <<rows>> when it can be read
    df,                    \* the dataset read
    df_clean,
    branch_monthly,
    constituency_monthly,
    top_performing_branches,
    low_performing_branches,
    written,               \* the sheets written to the ExcelWriter so far
    output_file            \* <<>> while no output file exists, <<sheets>> once
                           \* the writer has been closed

vars == <<pc, data, lines, lineno, i, current_constituency, parsed_data, src,
          input_file, df, df_clean, branch_monthly, constituency_monthly,
          top_performing_branches, low_performing_branches, written, output_file>>

parserVars == <<data, lines, lineno, i, current_constituency, parsed_data, src>>
analysisVars == <<input_file, df, df_clean, branch_monthly, constituency_monthly,
                  top_performing_branches, low_performing_branches, written,
                  output_file>>

(***************************************************************************)
(* Bounds of the model                                                     *)
(***************************************************************************)
MaxLines == 4

(***************************************************************************)
(* Characters and Python values                                            *)
(***************************************************************************)
HAND == "U+1F449"
TONE == "U+1F3FE"
Marker == <<HAND, TONE>>
Star == "*"
Whitespace == {" ", "\t"}
DigitChars == <<"0", "1", "2", "3", "4", "5", "6", "7", "8", "9">>
IsDigit(c) == \E d \in DOMAIN DigitChars : DigitChars[d] = c
DigitVal(c) == (CHOOSE d \in DOMAIN DigitChars : DigitChars[d] = c) - 1

None == <<>>
Some(x) == <<x>>

Min(S) == CHOOSE x \in S : \A y \in S : x <= y
Max(S) == CHOOSE x \in S : \A y \in S : x >= y

\* str.strip(chars): drop the leading and trailing characters that are in chars
Strip(s, chars) ==
    LET keep == {k \in 1..Len(s) : s[k] \notin chars}
    IN IF keep = {} THEN <<>> ELSE SubSeq(s, Min(keep), Max(keep))

StartsWith(s, p) == Len(s) >= Len(p) /\ SubSeq(s, 1, Len(p)) = p
EndsWith(s, p) == Len(s) >= Len(p) /\ SubSeq(s, Len(s) - Len(p) + 1, Len(s)) = p

\* str.replace(p, ''): remove the occurrences of p, left to right
RECURSIVE Remove(_, _)
Remove(s, p) ==
    IF s = <<>> THEN <<>>
    ELSE IF StartsWith(s, p) THEN Remove(SubSeq(s, Len(p) + 1, Len(s)), p)
    ELSE <<Head(s)>> \o Remove(Tail(s), p)

\* int() of a string of decimal digits
RECURSIVE ToInt(_)
ToInt(ds) == IF ds = <<>> THEN 0 ELSE 10 * ToInt(SubSeq(ds, 1, Len(ds) - 1)) + DigitVal(ds[Len(ds)])

\* n / d rounded to the nearest integer, a tie going to the even neighbour
\* (Python's round and numpy's around on a value that is exactly a tie)
RoundDiv(n, d) ==
    LET q == n \div d
        r == n % d
    IN IF 2 * r < d THEN q
       ELSE IF 2 * r > d THEN q + 1
       ELSE IF q % 2 = 0 THEN q ELSE q + 1

(***************************************************************************)
(* parse_branch_line                                                       *)
(***************************************************************************)
\* the first index >= p of s whose character is not in S (Len(s) + 1 if none)
SkipWhile(s, p, S) == Min({j \in p..(Len(s) + 1) : j = Len(s) + 1 \/ s[j] \notin S})
DigitSet == {DigitChars[d] : d \in DOMAIN DigitChars}

NoMatch == [ok |-> FALSE, name |-> <<>>, att |-> <<>>, tgt |-> <<>>]

\* \s*-\s*(\d+)\s*[/|]\s*(\d+)$ matched against r, the text after group 1
RestMatch(r) ==
    LET n == Len(r)
        p1 == SkipWhile(r, 1, Whitespace)
        p2 == SkipWhile(r, p1 + 1, Whitespace)
        q2 == SkipWhile(r, p2, DigitSet)
        p3 == SkipWhile(r, q2, Whitespace)
        p4 == SkipWhile(r, p3 + 1, Whitespace)
        q4 == SkipWhile(r, p4, DigitSet)
    IN IF /\ p1 <= n /\ r[p1] = "-"
          /\ p2 <= n /\ q2 > p2
          /\ p3 <= n /\ r[p3] \in {"/", "|"}
          /\ p4 <= n /\ q4 > p4 /\ q4 = n + 1
       THEN [ok |-> TRUE, name |-> <<>>,
             att |-> SubSeq(r, p2, q2 - 1), tgt |-> SubSeq(r, p4, q4 - 1)]
       ELSE NoMatch

\* re.search(r'^(.+?)\s*-\s*(\d+)\s*[/|]\s*(\d+)$', line): group 1 is lazy, so
\* the shortest non-empty prefix after which the rest matches
Pattern(line) ==
    LET ns == {n \in 1..Len(line) : RestMatch(SubSeq(line, n + 1, Len(line))).ok}
    IN IF ns = {} THEN NoMatch
       ELSE LET n == Min(ns)
                m == RestMatch(SubSeq(line, n + 1, Len(line)))
            IN [m EXCEPT !.name = SubSeq(line, 1, n)]

pastor == "NA"
month == "July"
week == "5"
year == "2025"

\* a rate cut to 2 decimals instead of rounded
AttendanceRateTruncated(attendance, expected_attendance) ==
    (attendance * 10000) \div expected_attendance
\* round((attendance / expected_attendance) * 100, 2), in hundredths
AttendanceRate(attendance, expected_attendance) ==
    RoundDiv(attendance * 10000, expected_attendance)

BranchName(m) == Strip(m.name, Whitespace)
BranchAttendance(m) == ToInt(m.att)
BranchTarget(m) == ToInt(m.tgt)

\* a parser that raises on a line the pattern does not match
RaiseOnNoMatch == [kind |-> "raise", rec |-> <<>>]
\* line 75: return None
NoMatchResult == [kind |-> "none", rec |-> <<>>]

\* [kind |-> "record", rec |-> <<dict>>], [kind |-> "none"] for return None,
\* [kind |-> "raise"] for the ZeroDivisionError of line 69
parse_branch_line(line, constituency) ==
    LET cleaned == Strip(Remove(line, Marker), Whitespace)
        m == Pattern(cleaned)
    IN IF m.ok
       THEN IF BranchTarget(m) = 0
            THEN [kind |-> "raise", rec |-> <<>>]
            ELSE [kind |-> "record",
                  rec |-> <<[Constituency |-> constituency,
                             Branch |-> BranchName(m),
                             Pastor |-> pastor,
                             Attendance |-> BranchAttendance(m),
                             Target |-> BranchTarget(m),
                             Attendance_rate |->
                                 AttendanceRate(BranchAttendance(m), BranchTarget(m)),
                             Month |-> month,
                             Week |-> week,
                             Year |-> year]>>]
       ELSE NoMatchResult

(***************************************************************************)
(* parse_attendance_data                                                   *)
(***************************************************************************)
IsHeader(line) == StartsWith(line, <<Star>>) /\ EndsWith(line, <<Star>>)
HeaderName(line) == Strip(line, {Star})
\* a parser that keeps the first constituency it saw
KeepFirstConstituency(line, c) == IF c = None THEN Some(HeaderName(line)) ELSE c
\* line 27: the value current_constituency takes at a header line
NextConstituency(line, c) == Some(HeaderName(line))
\* truth value of current_constituency: None and '' are false
Truthy(c) == c # None /\ c[1] # <<>>
IsRecordLine(line) == StartsWith(line, Marker)
\* a parser without the test of current_constituency
TakesRecordBranchUnguarded(line, c) == IsRecordLine(line)
TakesRecordBranch(line, c) == IsRecordLine(line) /\ Truthy(c)

\* the indices of data whose stripped line is not empty, in order
RECURSIVE KeptIndices(_, _)
KeptIndices(d, k) ==
    IF k > Len(d) THEN <<>>
    ELSE IF Strip(d[k], Whitespace) # <<>> THEN <<k>> \o KeptIndices(d, k + 1)
    ELSE KeptIndices(d, k + 1)

CleanLines(d) ==
    LET ks == KeptIndices(d, 1)
    IN [k \in 1..Len(ks) |-> Strip(d[ks[k]], Whitespace)]

\* the lines a text is drawn from
LinePool ==
    { <<"*", "A", "*">>,
      <<" ", "*", "B", " ", "C", "*">>,
      <<"*", "*">>,
      <<" ", " ", HAND, TONE, "B", " ", "-", " ", "5", "/", "1", "0">>,
      <<HAND, TONE, "C", "-", "2", "|", "3", " ">>,
      <<HAND, TONE, "B", " ", "-", " ", "5">>,
      <<HAND, TONE, "B", " ", "-", " ", "x", "/", "1", "0">>,
      <<HAND, TONE, "B", " ", "-", " ", "5", "/", "0">>,
      <<HAND, "B", " ", "-", " ", "5", "/", "1", "0">>,
      <<" ">> }

analysisIdle ==
    /\ input_file = <<>>
    /\ df = <<>> /\ df_clean = <<>> /\ branch_monthly = <<>>
    /\ constituency_monthly = <<>> /\ top_performing_branches = <<>>
    /\ low_performing_branches = <<>> /\ written = <<>>
    /\ output_file = None

InitParse ==
    /\ pc = "start"
    /\ \E n \in 0..MaxLines : data \in [1..n -> LinePool]
    /\ lines = <<>> /\ lineno = <<>> /\ i = 0
    /\ current_constituency = None
    /\ parsed_data = <<>> /\ src = <<>>
    /\ analysisIdle

\* lines 18-21
SplitLines ==
    /\ pc = "start"
    /\ lines' = CleanLines(data)
    /\ lineno' = KeptIndices(data, 1)
    /\ i' = 1
    /\ current_constituency' = None
    /\ parsed_data' = <<>>
    /\ src' = <<>>
    /\ pc' = "loop"
    /\ UNCHANGED <<data, analysisVars>>

\* lines 25-27
HeaderLine ==
    /\ pc = "loop" /\ i <= Len(lines)
    /\ IsHeader(lines[i])
    /\ current_constituency' = NextConstituency(lines[i], current_constituency)
    /\ i' = i + 1
    /\ UNCHANGED <<pc, data, lines, lineno, parsed_data, src, analysisVars>>

\* lines 30-34
RecordLine ==
    /\ pc = "loop" /\ i <= Len(lines)
    /\ ~IsHeader(lines[i])
    /\ TakesRecordBranch(lines[i], current_constituency)
    /\ LET branch_data == parse_branch_line(lines[i], current_constituency)
       IN CASE branch_data.kind = "record" ->
                 /\ parsed_data' = Append(parsed_data, branch_data.rec[1])
                 /\ src' = Append(src, lineno[i])
                 /\ i' = i + 1
                 /\ pc' = pc
            [] branch_data.kind = "none" ->
                 /\ i' = i + 1
                 /\ UNCHANGED <<pc, parsed_data, src>>
            [] branch_data.kind = "raise" ->
                 /\ pc' = "raised"
                 /\ UNCHANGED <<i, parsed_data, src>>
    /\ UNCHANGED <<data, lines, lineno, current_constituency, analysisVars>>

\* a line that takes neither branch
OtherLine ==
    /\ pc = "loop" /\ i <= Len(lines)
    /\ ~IsHeader(lines[i])
    /\ ~TakesRecordBranch(lines[i], current_constituency)
    /\ i' = i + 1
    /\ UNCHANGED <<pc, data, lines, lineno, current_constituency, parsed_data, src,
                   analysisVars>>

\* line 36
ReturnParsed ==
    /\ pc = "loop" /\ i > Len(lines)
    /\ pc' = "done"
    /\ UNCHANGED <<parserVars, analysisVars>>

NextParse == SplitLines \/ HeaderLine \/ RecordLine \/ OtherLine \/ ReturnParsed

Spec == InitParse /\ [][NextParse]_vars

(***************************************************************************)
(* calculate_monthly_attendance_averages: the dataset and its rollups      *)
(***************************************************************************)
MaxRows == 3
TopN == 5

\* the order of Python's str comparison on the names the model uses
NameOrder == <<"B01", "B02", "B03", "B04", "B05", "B06", "B07", "B08", "B09", "B10",
               "B11", "B12", "C1", "C2", "July", "June">>
NameRank(s) == CHOOSE k \in DOMAIN NameOrder : NameOrder[k] = s

\* a float that may be inf or nan; val is in hundredths when kind = "num"
Finite(n) == [kind |-> "num", val |-> n]
Inf == [kind |-> "inf", val |-> 0]
NaN == [kind |-> "nan", val |-> 0]

Row(y, m, c, b, w, a, t) ==
    [Year |-> y, Month |-> m, Constituency |-> c, Branch |-> b, Week |-> w,
     Attendance |-> a, Target |-> t]

\* the rows a dataset is drawn from
RowPool ==
    { Row(2025, "July", Some("C1"), Some("B01"), 1, Some(4), 10),
      Row(2025, "July", Some("C1"), Some("B01"), 2, Some(6), 10),
      Row(2025, "July", Some("C1"), Some("B01"), 3, Some(8), 12),
      Row(2025, "July", Some("C1"), Some("B01"), 1, Some(5), 10),
      Row(2025, "July", Some("C1"), Some("B02"), 1, Some(6), 12),
      Row(2025, "July", Some("C1"), Some("B02"), 2, Some(6), 12),
      Row(2025, "July", Some("C1"), Some("B02"), 2, Some(7), 15),
      Row(2025, "July", Some("C2"), Some("B02"), 1, Some(2), 3),
      Row(2025, "July", Some("C2"), Some("B01"), 1, Some(5), 0),
      Row(2025, "July", Some("C2"), Some("B01"), 2, Some(0), 0),
      Row(2025, "June", Some("C1"), Some("B01"), 1, Some(7), 10),
      Row(2024, "July", Some("C1"), Some("B01"), 1, Some(3), 10),
      Row(2025, "July", None, Some("B01"), 1, Some(9), 10),
      Row(2025, "July", Some("C1"), None, 1, Some(9), 10),
      Row(2025, "July", Some("C1"), Some("B01"), 1, None, 20) }

RECURSIVE SumOf(_, _)
SumOf(f, S) == IF S = {} THEN 0 ELSE LET x == CHOOSE x \in S : TRUE IN f[x] + SumOf(f, S \ {x})

\* line 24: sorted() of the unique constituencies compares a NaN with a str
\* as soon as the column holds both, and raises TypeError
DescribeRaises(d) ==
    /\ \E k \in 1..Len(d) : d[k].Constituency = None
    /\ \E k \in 1..Len(d) : d[k].Constituency # None

\* a dropna whose subset leaves out 'Attendance'
HasKeyValuesWithoutAttendance(r) == r.Constituency # None /\ r.Branch # None
\* line 28: dropna(subset=['Constituency', 'Branch', 'Attendance'])
HasKeyValues(r) == r.Constituency # None /\ r.Branch # None /\ r.Attendance # None
DropNa(d) == SelectSeq(d, HasKeyValues)

\* groupby keys, which pandas sorts
BranchKey(r) == <<r.Year, r.Month, r.Constituency[1], r.Branch[1]>>
ConstituencyKey(r) == <<r.Year, r.Month, r.Constituency[1]>>
KeyRank(k) == [j \in DOMAIN k |-> IF j = 1 THEN k[j] ELSE NameRank(k[j])]
KeyLess(a, b) ==
    \E j \in DOMAIN a :
        /\ KeyRank(a)[j] < KeyRank(b)[j]
        /\ \A h \in 1..(j - 1) : KeyRank(a)[h] = KeyRank(b)[h]
RECURSIVE SortKeys(_)
SortKeys(S) ==
    IF S = {} THEN <<>>
    ELSE LET first == CHOOSE x \in S : \A y \in S \ {x} : KeyLess(x, y)
         IN <<first>> \o SortKeys(S \ {first})

\* the positions of d whose row has the key
BranchGroup(d, key) == {k \in 1..Len(d) : BranchKey(d[k]) = key}
ConstituencyGroup(d, key) == {k \in 1..Len(d) : ConstituencyKey(d[k]) = key}

TotalAttendance(d, g) == SumOf([k \in g |-> d[k].Attendance[1]], g)
TotalTarget(d, g) == SumOf([k \in g |-> d[k].Target], g)

\* a series divided by a series, times 100, rounded to 2: no exception on a
\* zero divisor, but inf or nan
RateOf(avg, target) ==
    IF target = 0 THEN (IF avg = 0 THEN NaN ELSE Inf)
    ELSE Finite(RoundDiv(avg * 100, target))

\* a branch rollup that sums the attendance
AttendanceSum(d, g) == TotalAttendance(d, g) * 100
\* 'Attendance': 'mean', rounded to 2 (lines 34, 36), in hundredths
AttendanceMean(d, g) == RoundDiv(TotalAttendance(d, g) * 100, Cardinality(g))
\* 'Target': 'max' (line 35)
TargetMax(d, g) == Max({d[k].Target : k \in g})

\* lines 33-45
BranchMonthly(d) ==
    LET keys == SortKeys({BranchKey(d[k]) : k \in 1..Len(d)})
    IN [n \in 1..Len(keys) |->
         LET g == BranchGroup(d, keys[n])
             avg == AttendanceMean(d, g)
             target == TargetMax(d, g)
         IN [Year |-> keys[n][1], Month |-> keys[n][2],
             Constituency |-> keys[n][3], Branch |-> keys[n][4],
             Monthly_Attendance_Avg |-> avg,
             Target |-> target,
             Attendance_Rate |-> RateOf(avg, target)]]

\* a count of the group's records
ReportsCountRecords(d, g) == Cardinality(g)
\* 'Week': 'nunique' (line 50)
ReportsCount(d, g) == Cardinality({d[k].Week : k \in g})
\* 'Branch': 'nunique' (line 52)
UniqueBranches(d, g) == Cardinality({d[k].Branch[1] : k \in g})

\* lines 49-71, before the columns of line 74 are dropped
ConstituencyMonthly(d) ==
    LET keys == SortKeys({ConstituencyKey(d[k]) : k \in 1..Len(d)})
    IN [n \in 1..Len(keys) |->
         LET g == ConstituencyGroup(d, keys[n])
             count == ReportsCount(d, g)
             avg == RoundDiv(TotalAttendance(d, g) * 100, count)
             target == RoundDiv(TotalTarget(d, g), count)
         IN [Year |-> keys[n][1], Month |-> keys[n][2], Constituency |-> keys[n][3],
             Reports_Count |-> count,
             Total_Attendance |-> TotalAttendance(d, g),
             Unique_Branches |-> UniqueBranches(d, g),
             Total_Target |-> TotalTarget(d, g),
             Monthly_Attendance_Avg |-> avg,
             Target |-> target,
             Attendance_Rate |-> RateOf(avg, target)]]

\* line 74
DropColumns(t) ==
    [n \in 1..Len(t) |->
        [Year |-> t[n].Year, Month |-> t[n].Month, Constituency |-> t[n].Constituency,
         Unique_Branches |-> t[n].Unique_Branches,
         Monthly_Attendance_Avg |-> t[n].Monthly_Attendance_Avg,
         Target |-> t[n].Target,
         Attendance_Rate |-> t[n].Attendance_Rate]]

(***************************************************************************)
(* The ranking of lines 116-122                                            *)
(***************************************************************************)
\* a selection that keeps the last of the rows with equal values
PrecedesKeepLast(t, a, b, largest) ==
    \/ (largest /\ t[a].Monthly_Attendance_Avg > t[b].Monthly_Attendance_Avg)
    \/ (~largest /\ t[a].Monthly_Attendance_Avg < t[b].Monthly_Attendance_Avg)
    \/ (t[a].Monthly_Attendance_Avg = t[b].Monthly_Attendance_Avg /\ a > b)
\* row a comes before row b in nlargest (largest) or nsmallest: by value, and
\* among equal values the row met first (keep='first')
Precedes(t, a, b, largest) ==
    \/ (largest /\ t[a].Monthly_Attendance_Avg > t[b].Monthly_Attendance_Avg)
    \/ (~largest /\ t[a].Monthly_Attendance_Avg < t[b].Monthly_Attendance_Avg)
    \/ (t[a].Monthly_Attendance_Avg = t[b].Monthly_Attendance_Avg /\ a < b)
Place(t, a, largest) == 1 + Cardinality({b \in 1..Len(t) : Precedes(t, b, a, largest)})

\* DataFrame.nlargest(n, 'Monthly_Attendance_Avg') / nsmallest
NSelect(t, n, largest) ==
    [k \in 1..Min({n, Len(t)}) |-> t[CHOOSE a \in 1..Len(t) : Place(t, a, largest) = k]]

\* the columns kept by lines 117 and 121
Performer(r) ==
    [Year |-> r.Year, Month |-> r.Month, Constituency |-> r.Constituency,
     Branch |-> r.Branch, Monthly_Attendance_Avg |-> r.Monthly_Attendance_Avg,
     Attendance_Rate |-> r.Attendance_Rate]

HasMonth(t, m) == {k \in 1..Len(t) : t[k].Month = m}
RECURSIVE RowsAt(_, _, _)
RowsAt(t, S, k) ==
    IF k > Len(t) THEN <<>>
    ELSE IF k \in S THEN <<t[k]>> \o RowsAt(t, S, k + 1)
    ELSE RowsAt(t, S, k + 1)
\* the group of groupby('Month'): the month's rows in the order of the table
MonthRows(t, m) == RowsAt(t, HasMonth(t, m), 1)
RECURSIVE SortNames(_)
SortNames(S) ==
    IF S = {} THEN <<>>
    ELSE LET first == CHOOSE x \in S : \A y \in S : NameRank(x) <= NameRank(y)
         IN <<first>> \o SortNames(S \ {first})

RECURSIVE PerMonth(_, _, _, _, _)
PerMonth(t, ms, k, n, largest) ==
    IF k > Len(ms) THEN <<>>
    ELSE LET sel == NSelect(MonthRows(t, ms[k]), n, largest)
         IN [j \in 1..Len(sel) |-> Performer(sel[j])] \o PerMonth(t, ms, k + 1, n, largest)

\* a ranking whose two tables both take the largest
PerformersAlwaysLargest(t, n, largest) ==
    PerMonth(t, SortNames({t[k].Month : k \in 1..Len(t)}), 1, n, TRUE)
\* groupby('Month').apply(nlargest / nsmallest).reset_index(drop=True)[columns]
Performers(t, n, largest) ==
    PerMonth(t, SortNames({t[k].Month : k \in 1..Len(t)}), 1, n, largest)

Sheets == <<"Constituency_Monthly", "Branch_Monthly", "Top_Performers",
            "Low_Performers", "Original_Data">>

parserIdle ==
    /\ data = <<>> /\ lines = <<>> /\ lineno = <<>> /\ i = 0
    /\ current_constituency = None /\ parsed_data = <<>> /\ src = <<>>

\* the call of line 198: the input file is missing, or holds a dataset
InitAnalysis ==
    /\ pc = "read"
    /\ \/ input_file = None
       \/ \E n \in 0..MaxRows : \E d \in [1..n -> RowPool] : input_file = Some(d)
    /\ df = <<>> /\ df_clean = <<>> /\ branch_monthly = <<>>
    /\ constituency_monthly = <<>> /\ top_performing_branches = <<>>
    /\ low_performing_branches = <<>> /\ written = <<>>
    /\ output_file = None
    /\ parserIdle

\* line 17
ReadExcel ==
    /\ pc = "read" /\ input_file # None
    /\ df' = input_file[1]
    /\ pc' = "describe"
    /\ UNCHANGED <<parserVars, input_file, df_clean, branch_monthly, constituency_monthly,
                   top_performing_branches, low_performing_branches, written, output_file>>

\* line 17 raising FileNotFoundError
ReadExcelFails ==
    /\ pc = "read" /\ input_file = None
    /\ pc' = "failed"
    /\ UNCHANGED <<parserVars, analysisVars>>

\* lines 20-25
Describe ==
    /\ pc = "describe" /\ ~DescribeRaises(df)
    /\ pc' = "clean"
    /\ UNCHANGED <<parserVars, analysisVars>>

\* line 24 raising TypeError
DescribeFails ==
    /\ pc = "describe" /\ DescribeRaises(df)
    /\ pc' = "failed"
    /\ UNCHANGED <<parserVars, analysisVars>>

\* line 28
Clean ==
    /\ pc = "clean"
    /\ df_clean' = DropNa(df)
    /\ pc' = "branch"
    /\ UNCHANGED <<parserVars, input_file, df, branch_monthly, constituency_monthly,
                   top_performing_branches, low_performing_branches, written, output_file>>

\* lines 33-45
BranchRollup ==
    /\ pc = "branch"
    /\ branch_monthly' = BranchMonthly(df_clean)
    /\ pc' = "constituency"
    /\ UNCHANGED <<parserVars, input_file, df, df_clean, constituency_monthly,
                   top_performing_branches, low_performing_branches, written, output_file>>

\* lines 49-71
ConstituencyRollup ==
    /\ pc = "constituency"
    /\ constituency_monthly' = ConstituencyMonthly(df_clean)
    /\ pc' = "drop"
    /\ UNCHANGED <<parserVars, input_file, df, df_clean, branch_monthly,
                   top_performing_branches, low_performing_branches, written, output_file>>

\* line 74
DropTotals ==
    /\ pc = "drop"
    /\ constituency_monthly' = DropColumns(constituency_monthly)
    /\ pc' = "top"
    /\ UNCHANGED <<parserVars, input_file, df, df_clean, branch_monthly,
                   top_performing_branches, low_performing_branches, written, output_file>>

\* lines 116-118
RankTop ==
    /\ pc = "top"
    /\ top_performing_branches' = Performers(branch_monthly, TopN, TRUE)
    /\ pc' = "low"
    /\ UNCHANGED <<parserVars, input_file, df, df_clean, branch_monthly,
                   constituency_monthly, low_performing_branches, written, output_file>>

\* lines 120-122
RankLow ==
    /\ pc = "low"
    /\ low_performing_branches' = Performers(branch_monthly, TopN, FALSE)
    /\ pc' = "export"
    /\ UNCHANGED <<parserVars, input_file, df, df_clean, branch_monthly,
                   constituency_monthly, top_performing_branches, written, output_file>>

\* the table each sheet is written from, in the order of lines 152-162
SheetRows(k) ==
    CASE k = 1 -> constituency_monthly
      [] k = 2 -> branch_monthly
      [] k = 3 -> top_performing_branches
      [] k = 4 -> low_performing_branches
      [] k = 5 -> df_clean

\* the first n sheets of lines 152-162, as the writer's workbook holds them
SheetsWritten(n) == [k \in 1..n |-> [sheet |-> Sheets[k], rows |-> SheetRows(k)]]

\* lines 149-189: the five to_excel calls, and the end of the with statement
\* saving the workbook
Export ==
    /\ pc = "export"
    /\ written' = SheetsWritten(Len(Sheets))
    /\ output_file' = Some(written')
    /\ pc' = "done"
    /\ UNCHANGED <<parserVars, input_file, df, df_clean, branch_monthly,
                   constituency_monthly, top_performing_branches,
                   low_performing_branches>>

\* lines 149-162 with one of the to_excel calls raising after n sheets: the
\* with statement of line 149 leaves through ExcelWriter.__exit__, which
\* closes the writer and so saves the workbook as it stands; the exception
\* goes on to the caller (line 208)
ExportFails ==
    /\ pc = "export"
    /\ \E n \in 0..(Len(Sheets) - 1) : written' = SheetsWritten(n)
    /\ output_file' = Some(written')
    /\ pc' = "failed"
    /\ UNCHANGED <<parserVars, input_file, df, df_clean, branch_monthly,
                   constituency_monthly, top_performing_branches,
                   low_performing_branches>>

NextAnalysis ==
    \/ ReadExcel \/ ReadExcelFails \/ Describe \/ DescribeFails \/ Clean
    \/ BranchRollup \/ ConstituencyRollup \/ DropTotals \/ RankTop \/ RankLow \/ Export

SpecAnalysis == InitAnalysis /\ [][NextAnalysis]_vars

\* the same run, where the export may also fail
NextRun == NextAnalysis \/ ExportFails

SpecRun == InitAnalysis /\ [][NextRun]_vars

(***************************************************************************)
(* The ranking on branch rollups of up to 2 * TopN rows a month            *)
(***************************************************************************)
MaxMonthRows == 10
MaxOtherRows == 1
AvgPool == {400, 600}

\* the rollup rows of one month: n rows in key order, with the averages avgs
RollupRows(m, avgs) ==
    [p \in 1..Len(avgs) |->
        [Year |-> 2025, Month |-> m,
         Constituency |-> IF 2 * p <= Len(avgs) THEN "C1" ELSE "C2",
         Branch |-> NameOrder[p],
         Monthly_Attendance_Avg |-> avgs[p],
         Target |-> 10,
         Attendance_Rate |-> RateOf(avgs[p], 10)]]

\* branch rollups as lines 33-45 leave them: sorted by key, July before June
InitRank ==
    /\ pc = "top"
    /\ \E n \in 0..MaxMonthRows : \E a \in [1..n -> AvgPool] :
       \E o \in 0..MaxOtherRows : \E b \in [1..o -> AvgPool] :
           branch_monthly = RollupRows("July", a) \o RollupRows("June", b)
    /\ input_file = None /\ df = <<>> /\ df_clean = <<>>
    /\ constituency_monthly = <<>> /\ top_performing_branches = <<>>
    /\ low_performing_branches = <<>> /\ written = <<>>
    /\ output_file = None
    /\ parserIdle

NextRank == RankTop \/ RankLow

SpecRank == InitRank /\ [][NextRank]_vars

(***************************************************************************)
(* parse_attendance_data as a function of the text: what a call returns,   *)
(* or that it raised                                                       *)
(***************************************************************************)
RECURSIVE RunFrom(_, _, _, _)
RunFrom(ls, k, c, acc) ==
    IF k > Len(ls) THEN [status |-> "done", records |-> acc]
    ELSE IF IsHeader(ls[k]) THEN RunFrom(ls, k + 1, NextConstituency(ls[k], c), acc)
    ELSE IF TakesRecordBranch(ls[k], c)
         THEN LET branch_data == parse_branch_line(ls[k], c)
              IN CASE branch_data.kind = "record" ->
                        RunFrom(ls, k + 1, c, Append(acc, branch_data.rec[1]))
                   [] branch_data.kind = "none" -> RunFrom(ls, k + 1, c, acc)
                   [] branch_data.kind = "raise" -> [status |-> "raised", records |-> <<>>]
    ELSE RunFrom(ls, k + 1, c, acc)

Run(d) == RunFrom(CleanLines(d), 1, None, <<>>)

(***************************************************************************)
(* Claims about the parser.  They speak of the text's own lines: line k of *)
(* the text is data[k], and a record's source line is data[src[.]].        *)
(***************************************************************************)
Trimmed(k) == Strip(data[k], Whitespace)
\* a header line: its trimmed form starts and ends with the delimiter
HeaderAt(k) ==
    LET l == Trimmed(k) IN l # <<>> /\ l[1] = "*" /\ l[Len(l)] = "*"
HeadersBefore(k) == {h \in 1..(k - 1) : HeaderAt(h)}
\* the delimiter-stripped name of header line h
RECURSIVE Unwrapped(_)
Unwrapped(l) ==
    IF l = <<>> THEN l
    ELSE IF l[1] = "*" THEN Unwrapped(Tail(l))
    ELSE IF l[Len(l)] = "*" THEN Unwrapped(SubSeq(l, 1, Len(l) - 1))
    ELSE l
\* a record line: its trimmed form starts with the marker token
RecordAt(k) ==
    LET l == Trimmed(k) IN Len(l) >= 2 /\ l[1] = HAND /\ l[2] = TONE
\* the text of record line k after the marker
Payload(k) == Strip(Remove(Trimmed(k), Marker), Whitespace)
MatchesGrammar(k) == RecordAt(k) /\ Pattern(Payload(k)).ok
Malformed(k) == RecordAt(k) /\ ~Pattern(Payload(k)).ok
RemoveAt(d, k) == SubSeq(d, 1, k - 1) \o SubSeq(d, k + 1, Len(d))
Finished == pc \in {"done", "raised"}
\* what this call gave its caller
Outcome == [status |-> pc, records |-> IF pc = "done" THEN parsed_data ELSE <<>>]

\* C1: every record carries as its constituency the delimiter-stripped name of
\* the most recent header line before the record's source line; this holds of
\* the records emitted so far in every state, so a later header changes none.
C1_ConstituencyOfLatestHeader ==
    \A k \in 1..Len(parsed_data) :
        LET hs == HeadersBefore(src[k])
        IN /\ hs # {}
           /\ parsed_data[k].Constituency = Some(Unwrapped(Trimmed(Max(hs))))

\* two records of one text, under two different headers
C1_Witness ==
    /\ pc = "done" /\ Len(parsed_data) = 2
    /\ parsed_data[1].Constituency = Some(<<"A">>)
    /\ parsed_data[2].Constituency = Some(<<"B", " ", "C">>)
    /\ \E h \in (src[1] + 1)..(src[2] - 1) : HeaderAt(h)

\* C2: a record line before any header line gives no record and no error: a
\* text with no header line returns the empty sequence, no record's source
\* line precedes the first header line, and a call raises only at a line
\* that follows a header.
C2_OrphanRecordDropped ==
    /\ \A k \in 1..Len(src) : HeadersBefore(src[k]) # {}
    /\ (\A h \in 1..Len(data) : ~HeaderAt(h)) =>
           /\ pc # "raised"
           /\ parsed_data = <<>>
           /\ pc = "done" => Outcome.records = <<>>
    /\ pc = "raised" => HeadersBefore(lineno[i]) # {}

\* a well-formed record line heads the text and is dropped; a later one is kept
C2_Witness ==
    /\ pc = "done" /\ Len(data) >= 3
    /\ MatchesGrammar(1)
    /\ Len(parsed_data) = 1 /\ src[1] > 1

\* C3: a malformed record line is dropped without affecting the other lines:
\* the call's outcome is that of the text without the line, and the step
\* that reads the line leaves the current constituency as it was.
C3_MalformedDroppedInv ==
    Finished => \A k \in 1..Len(data) :
                    Malformed(k) => Run(RemoveAt(data, k)) = Outcome
C3_MalformedStep ==
    (pc = "loop" /\ i <= Len(lines) /\ Malformed(lineno[i]))
        => /\ pc' = "loop"
           /\ current_constituency' = current_constituency
           /\ parsed_data' = parsed_data
C3_MalformedDropped == [](C3_MalformedDroppedInv) /\ [][C3_MalformedStep]_vars

\* a malformed line between two record lines that are kept
C3_Witness ==
    /\ pc = "done" /\ Len(parsed_data) = 2
    /\ \E k \in (src[1] + 1)..(src[2] - 1) : Malformed(k)

\* the two integers of a record line, read from its end: the digits that end
\* the line, and the digits before the separator
Pow10(n) == IF n = 0 THEN 1 ELSE IF n = 1 THEN 10 ELSE IF n = 2 THEN 100 ELSE 1000
Decimal(ds) ==
    LET term[k \in 0..Len(ds)] ==
            IF k = 0 THEN 0 ELSE term[k - 1] + DigitVal(ds[k]) * Pow10(Len(ds) - k)
    IN term[Len(ds)]
LastNonDigit(l, upto) == Max({0} \cup {j \in 1..upto : ~IsDigit(l[j])})
LastNonSpace(l, upto) == Max({0} \cup {j \in 1..upto : l[j] \notin Whitespace})
SecondInteger(l) == SubSeq(l, LastNonDigit(l, Len(l)) + 1, Len(l))
SeparatorAt(l) == LastNonSpace(l, LastNonDigit(l, Len(l)))
FirstInteger(l) ==
    LET e == LastNonSpace(l, SeparatorAt(l) - 1)
    IN SubSeq(l, LastNonDigit(l, e) + 1, e)

\* C4: a record has the first integer of its line as attendance, the second
\* as target, and as rate the hundredth nearest to attendance/target*100,
\* with either separator.
C4_FieldsAndRate ==
    \A k \in 1..Len(parsed_data) :
        LET l == Payload(src[k])
            r == parsed_data[k]
        IN /\ l[SeparatorAt(l)] \in {"/", "|"}
           /\ r.Attendance = Decimal(FirstInteger(l))
           /\ r.Target = Decimal(SecondInteger(l))
           /\ r.Target > 0
           /\ 2 * (r.Attendance_rate * r.Target - r.Attendance * 10000) <= r.Target
           /\ 2 * (r.Attendance * 10000 - r.Attendance_rate * r.Target) <= r.Target

\* "B - 5/10" gives rate 50.0 and "C-2|3" gives 66.67
C4_Witness ==
    /\ pc = "done" /\ Len(parsed_data) = 2
    /\ \E a, b \in 1..2 :
        /\ parsed_data[a].Branch = <<"B">> /\ parsed_data[a].Attendance = 5
        /\ parsed_data[a].Target = 10 /\ parsed_data[a].Attendance_rate = 5000
        /\ Payload(src[a])[SeparatorAt(Payload(src[a]))] = "/"
        /\ parsed_data[b].Branch = <<"C">> /\ parsed_data[b].Attendance = 2
        /\ parsed_data[b].Target = 3 /\ parsed_data[b].Attendance_rate = 6667
        /\ Payload(src[b])[SeparatorAt(Payload(src[b]))] = "|"

\* C5: one record per record line that follows a header and matches the
\* grammar, in the order of the lines.
C5_OneRecordPerMatchedLine ==
    pc = "done" =>
        /\ \A a, b \in 1..Len(src) : a < b => src[a] < src[b]
        /\ Len(parsed_data) =
               Cardinality({k \in 1..Len(data) :
                               MatchesGrammar(k) /\ HeadersBefore(k) # {}})

(***************************************************************************)
(* Claims about the rollups                                                *)
(***************************************************************************)
\* x is num / den rounded to the nearest integer
Nearest(x, num, den) == 2 * (x * den - num) <= den /\ 2 * (num - x * den) <= den
\* the branch rollup has been computed
RolledUp ==
    \/ pc \in {"constituency", "drop", "top", "low", "export", "done"}
    \/ (pc = "failed" /\ output_file # None)
\* rollup row r is the row of cleaned record c's key
SameBranchKey(r, c) ==
    /\ r.Year = c.Year /\ r.Month = c.Month
    /\ r.Constituency = c.Constituency[1] /\ r.Branch = c.Branch[1]
SameConstituencyKey(r, c) ==
    r.Year = c.Year /\ r.Month = c.Month /\ r.Constituency = c.Constituency[1]
RecordsOfBranchRow(r) == {k \in 1..Len(df_clean) : SameBranchKey(r, df_clean[k])}
RecordsOfConstituencyRow(r) ==
    {k \in 1..Len(df_clean) : SameConstituencyKey(r, df_clean[k])}
AttendanceTotal(g) == SumOf([k \in g |-> df_clean[k].Attendance[1]], g)
TargetTotal(g) == SumOf([k \in g |-> df_clean[k].Target], g)

\* C6: one branch rollup row per (year, month, constituency, branch) key of
\* the cleaned records; its average is the mean of the group's attendances
\* to 2 decimals, its target the largest of the group's targets, and, the
\* target being positive, its rate average / target * 100 to 2 decimals.
C6_BranchRollup ==
    RolledUp =>
        /\ \A k \in 1..Len(df_clean) :
               Cardinality({n \in 1..Len(branch_monthly) :
                               SameBranchKey(branch_monthly[n], df_clean[k])}) = 1
        /\ \A n \in 1..Len(branch_monthly) :
               LET r == branch_monthly[n]
                   g == RecordsOfBranchRow(r)
               IN /\ g # {}
                  /\ Nearest(r.Monthly_Attendance_Avg, 100 * AttendanceTotal(g),
                             Cardinality(g))
                  /\ \E k \in g : df_clean[k].Target = r.Target
                  /\ \A k \in g : df_clean[k].Target <= r.Target
                  /\ r.Target > 0 =>
                         /\ r.Attendance_Rate.kind = "num"
                         /\ Nearest(r.Attendance_Rate.val,
                                    100 * r.Monthly_Attendance_Avg, r.Target)

\* attendances 4, 6, 8 with targets 10, 10, 12 under one key: average 6.0,
\* target 12, rate 50.0
C6_Witness ==
    /\ RolledUp /\ Len(df_clean) = 3 /\ Len(branch_monthly) = 1
    /\ {df_clean[k].Attendance[1] : k \in 1..3} = {4, 6, 8}
    /\ \E k \in 1..3 : df_clean[k].Attendance[1] = 8 /\ df_clean[k].Target = 12
    /\ \A k \in 1..3 : df_clean[k].Attendance[1] # 8 => df_clean[k].Target = 10
    /\ branch_monthly[1].Monthly_Attendance_Avg = 600
    /\ branch_monthly[1].Target = 12
    /\ branch_monthly[1].Attendance_Rate = Finite(5000)

\* the constituency rollup still holds its count and totals
Counted == pc = "drop"

\* C7 as stated: report_count is the number of records of the group, and the
\* average and the target divide the totals by it.
C7_CountIsRecords ==
    Counted =>
        \A n \in 1..Len(constituency_monthly) :
            LET r == constituency_monthly[n]
                g == RecordsOfConstituencyRow(r)
            IN /\ r.Reports_Count = Cardinality(g)
               /\ Nearest(r.Monthly_Attendance_Avg, 100 * AttendanceTotal(g),
                          Cardinality(g))
               /\ Nearest(r.Target, TargetTotal(g), Cardinality(g))

\* C7 amended: report_count is the number of distinct weeks of the group; the
\* average is total attendance / report_count to 2 decimals and the target
\* total target / report_count rounded to an integer, a tie going to the
\* even one.
C7_CountIsWeeks ==
    Counted =>
        /\ \A k \in 1..Len(df_clean) :
               Cardinality({n \in 1..Len(constituency_monthly) :
                               SameConstituencyKey(constituency_monthly[n],
                                                   df_clean[k])}) = 1
        /\ \A n \in 1..Len(constituency_monthly) :
               LET r == constituency_monthly[n]
                   g == RecordsOfConstituencyRow(r)
                   weeks == Cardinality({df_clean[k].Week : k \in g})
               IN /\ g # {}
                  /\ r.Reports_Count = weeks
                  /\ Nearest(r.Monthly_Attendance_Avg, 100 * AttendanceTotal(g), weeks)
                  /\ Nearest(r.Target, TargetTotal(g), weeks)
                  /\ (2 * (TargetTotal(g) % weeks) = weeks) => r.Target % 2 = 0

\* two branches with one report each, attendances 4 and 6, targets 10 and 12:
\* in different weeks report_count is 2, the average 5.0 and the target 11
C7_Witness ==
    /\ Counted /\ Len(df_clean) = 2 /\ Len(constituency_monthly) = 1
    /\ df_clean[1].Branch # df_clean[2].Branch
    /\ df_clean[1].Week # df_clean[2].Week
    /\ {df_clean[k].Attendance[1] : k \in 1..2} = {4, 6}
    /\ {df_clean[k].Target : k \in 1..2} = {10, 12}
    /\ constituency_monthly[1].Reports_Count = 2
    /\ constituency_monthly[1].Monthly_Attendance_Avg = 500
    /\ constituency_monthly[1].Target = 11

\* C8: no row of either rollup has an infinite or NaN rate; a zero target
\* gives a guarded value.
C8_ZeroTargetGuarded ==
    /\ \A n \in 1..Len(branch_monthly) :
           branch_monthly[n].Attendance_Rate.kind \notin {"inf", "nan"}
    /\ \A n \in 1..Len(constituency_monthly) :
           constituency_monthly[n].Attendance_Rate.kind \notin {"inf", "nan"}

(***************************************************************************)
(* Claims about the ranking                                                *)
(***************************************************************************)
\* both tables have been computed
Ranked == pc \in {"export", "done"}
RollupOfMonth(m) == {n \in 1..Len(branch_monthly) : branch_monthly[n].Month = m}
RollupMonths == {branch_monthly[n].Month : n \in 1..Len(branch_monthly)}
\* the rollup row a performer row was taken from
IsFrom(r, n) == Performer(branch_monthly[n]) = r
Origin(r) == CHOOSE n \in 1..Len(branch_monthly) : IsFrom(r, n)
Avg(n) == branch_monthly[n].Monthly_Attendance_Avg
\* rollup row a is ranked before rollup row b
Outranks(a, b, largest) ==
    \/ (largest /\ Avg(a) > Avg(b))
    \/ (~largest /\ Avg(a) < Avg(b))
    \/ (Avg(a) = Avg(b) /\ a < b)
\* the rollup rows of month m that table tab lists
Listed(tab, m) == {Origin(tab[k]) : k \in {j \in 1..Len(tab) : tab[j].Month = m}}
\* table tab is the selection of the claim for month m
SelectionOf(tab, m, largest) ==
    LET at == {k \in 1..Len(tab) : tab[k].Month = m}
        all == RollupOfMonth(m)
    IN /\ Cardinality(at) = Min({TopN, Cardinality(all)})
       /\ \A k \in at : \E n \in all : IsFrom(tab[k], n)
       /\ \A j, k \in at : j < k => Outranks(Origin(tab[j]), Origin(tab[k]), largest)
       /\ \A k \in at : \A n \in all \ Listed(tab, m) :
              Outranks(Origin(tab[k]), n, largest)

\* C9: for each month of the branch rollup the top table holds the
\* min(N, rows of the month) rows of largest average in descending order and
\* the bottom table as many of smallest average in ascending order, equal
\* averages in the order of the rollup; neither holds a row of another month.
C9_TopAndBottomPerMonth ==
    Ranked =>
        /\ \A m \in RollupMonths :
               /\ SelectionOf(top_performing_branches, m, TRUE)
               /\ SelectionOf(low_performing_branches, m, FALSE)
        /\ \A k \in 1..Len(top_performing_branches) :
               top_performing_branches[k].Month \in RollupMonths
        /\ \A k \in 1..Len(low_performing_branches) :
               low_performing_branches[k].Month \in RollupMonths

\* a month of 7 rows, cut to 5 through a group of equal averages, beside a
\* month of 1 row
C9_Witness ==
    /\ Ranked
    /\ Cardinality(RollupOfMonth("July")) = 7
    /\ Cardinality(RollupOfMonth("June")) = 1
    /\ Len(top_performing_branches) = 6 /\ Len(low_performing_branches) = 6
    /\ \E a \in Listed(top_performing_branches, "July") :
       \E b \in RollupOfMonth("July") \ Listed(top_performing_branches, "July") :
           Avg(a) = Avg(b)
    /\ \E a, b \in Listed(top_performing_branches, "July") : Avg(a) # Avg(b)

\* the two selections of month m split its rows: N each, none in both, all
\* in one
Complementary(m) ==
    LET top == Listed(top_performing_branches, m)
        low == Listed(low_performing_branches, m)
    IN /\ Cardinality(top) = TopN /\ Cardinality(low) = TopN
       /\ top \cap low = {}
       /\ top \cup low = RollupOfMonth(m)

\* C10 as stated: in a month of exactly 2N rows the top N and the bottom N
\* are complementary, whatever the averages.
C10_AlwaysComplementary ==
    Ranked =>
        \A m \in RollupMonths :
            Cardinality(RollupOfMonth(m)) = 2 * TopN => Complementary(m)

\* some average has exactly N rows of the month at or above it: the N-th
\* largest average is larger than the (N+1)-th
CutBetweenValues(m) ==
    \E a \in RollupOfMonth(m) :
        Cardinality({n \in RollupOfMonth(m) : Avg(n) >= Avg(a)}) = TopN

\* C10 amended: in a month of exactly 2N rows whose N-th and (N+1)-th largest
\* averages differ, the top N and the bottom N are complementary.
C10_ComplementaryWhenCutDistinct ==
    Ranked =>
        \A m \in RollupMonths :
            (Cardinality(RollupOfMonth(m)) = 2 * TopN /\ CutBetweenValues(m))
                => Complementary(m)

\* 10 rows of a month, 5 of each average, not in the order of the averages
C10_Witness ==
    /\ Ranked
    /\ Cardinality(RollupOfMonth("July")) = 2 * TopN
    /\ CutBetweenValues("July")
    /\ \E a, b, c \in RollupOfMonth("July") :
           a < b /\ b < c /\ Avg(a) > Avg(b) /\ Avg(b) < Avg(c)
    /\ Complementary("July")

(***************************************************************************)
(* Claims about the cleaning and the run as a whole                        *)
(***************************************************************************)
\* a row of the dataset with none of the three values missing
Complete(r) == r.Constituency # <<>> /\ r.Branch # <<>> /\ r.Attendance # <<>>
CompleteRows == {k \in 1..Len(df) : Complete(df[k])}
\* the j-th complete row of the dataset
NthComplete(j) ==
    CHOOSE k \in CompleteRows : Cardinality({q \in CompleteRows : q <= k}) = j
\* line 28 has run
CleanedUp == pc \in {"branch"} \/ RolledUp
\* the constituency rollup has been computed
ConstituencyRolledUp == RolledUp /\ pc # "constituency"
\* both ranking tables have been computed
BothRanked == pc \in {"export", "done"} \/ (pc = "failed" /\ output_file # None)
\* the complete rows of the dataset under the key of a rollup row
CompleteOfBranchRow(r) ==
    {k \in CompleteRows :
        /\ df[k].Year = r.Year /\ df[k].Month = r.Month
        /\ df[k].Constituency = <<r.Constituency>> /\ df[k].Branch = <<r.Branch>>}
CompleteOfConstituencyRow(r) ==
    {k \in CompleteRows :
        /\ df[k].Year = r.Year /\ df[k].Month = r.Month
        /\ df[k].Constituency = <<r.Constituency>>}
AttendanceOver(g) == SumOf([k \in g |-> df[k].Attendance[1]], g)
TargetOver(g) == SumOf([k \in g |-> df[k].Target], g)

ReportedFailed == pc = "failed"

\* the workbook on disk holds all five tables, in the order of lines 152-162
AllSheetsSaved ==
    /\ output_file # None
    /\ Len(output_file[1]) = Len(Sheets)
    /\ \A k \in 1..Len(Sheets) : output_file[1][k].sheet = Sheets[k]

\* C12: a run is all-or-nothing for its output: a run reported as failed has
\* written no output file, not even a partial one, and an output file exists
\* only when every stage completed and it holds all five tables.
C12_AllOrNothing ==
    /\ ReportedFailed => output_file = None
    /\ output_file # None => (pc = "done" /\ AllSheetsSaved)

\* ---------------------------------------------------------------------
\* C13
\* ---------------------------------------------------------------------

\* the scanner has gone past a header line
HeaderSeen ==
    /\ pc \in {"loop", "done", "raised"}
    /\ \E j \in 1..Len(lines) : j < i /\ IsHeader(lines[j])

\* the scanner's state as line 30 reads it
InConstituency == Truthy(current_constituency)

\* C13: once any header line has been recognized the scanner is in state
\* InConstituency and stays there, and every later well-formed record line
\* yields a record.
C13_HeaderEntersInConstituency ==
    /\ HeaderSeen => InConstituency
    /\ pc = "done" =>
           \A k \in 1..Len(data) :
               (MatchesGrammar(k) /\ HeadersBefore(k) # {}) =>
                   \E j \in 1..Len(src) : src[j] = k

\* ---------------------------------------------------------------------
\* C14
\* ---------------------------------------------------------------------

\* record line k matches the grammar with a target field of 0
ZeroTargetAt(k) == MatchesGrammar(k) /\ BranchTarget(Pattern(Payload(k))) = 0

\* C14: parse_attendance_data never ends in an error state: no line, a
\* well-formed record line with target 0 included, aborts the parse; such a
\* line yields no record, and the lines after it are still scanned.
C14_NeverRaises ==
    /\ pc # "raised"
    /\ \A k \in 1..Len(src) : ~ZeroTargetAt(src[k])
    /\ Finished => (pc = "done" /\ i = Len(lines) + 1)

=============================================================================
